---- MODULE Spec2Model ----
(***************************************************************************)
(* Model of src/upme_monitor_github.py: the UPME announcements monitor.    *)
(*                                                                         *)
(* Conventions                                                             *)
(*   - a Python str is a sequence of character codes (naturals);           *)
(*   - a Python dict is the sequence of its <<key, value>> pairs in        *)
(*     insertion order (keys unique);                                      *)
(*   - an optional value (None or a value) is a sequence of length <= 1;   *)
(*   - the MD5 digest of calcular_hash is modelled by the bytes it         *)
(*     hashes (the canonical serialization): equal digests are equal       *)
(*     serializations, i.e. MD5 collisions are not modelled.               *)
(***************************************************************************)
EXTENDS Integers, Sequences, FiniteSets, TLC

VARIABLES
    file,              \* content of ARCHIVO_ESTADO on disk
    TELEGRAM_ACTIVADO, \* module constant, read once from the environment
    EMAIL_ACTIVADO,    \* module constant, read once from the environment
    run,               \* number of the current invocation of main()
    now,               \* datetime.now(), one tick per invocation
    pc,                \* position of the current invocation inside main()
    html,              \* main: html
    convocatorias,     \* main: convocatorias
    hash_actual,       \* main: hash_actual
    estado_anterior,   \* main: estado_anterior
    cambios,           \* main: cambios
    log,               \* external calls made by the current invocation, in order
    exit,              \* process exit status of the current invocation
    crashed,           \* an exception escaped main() in the current invocation
    branch,            \* branch of main() taken by the current invocation
    file0,             \* content of the state file when the invocation started
    prev,              \* summary of the previous invocation
    anterior,          \* second argument of detectar_cambios (diff-only runs)
    visto              \* the file content the last cargar_estado_anterior read

vars == <<file, TELEGRAM_ACTIVADO, EMAIL_ACTIVADO, run, now, pc, html,
          convocatorias, hash_actual, estado_anterior, cambios, log, exit,
          crashed, branch, file0, prev, anterior, visto>>

-----------------------------------------------------------------------------
(* Bounds of the model *)

MaxRuns == 2

MaxLen == 2

-----------------------------------------------------------------------------
(* Python strings and dicts *)

Min(a, b) == IF a < b THEN a ELSE b

\* s[:n]
Take(s, n) == SubSeq(s, 1, Min(n, Len(s)))

\* k in d
HasKey(d, k) == \E i \in 1..Len(d) : d[i][1] = k

\* d[k], for k in d
Val(d, k) == d[CHOOSE i \in 1..Len(d) : d[i][1] = k][2]

\* d.get(k, default)
Get(d, k, default) == IF HasKey(d, k) THEN Val(d, k) ELSE default

\* the separator of get_text(separator=' ')
Space == 32

\* " ".join of the stripped strings a and b that are not empty
JoinText(a, b) ==
    IF a = <<>> THEN b
    ELSE IF b = <<>> THEN a
    ELSE a \o <<Space>> \o b

-----------------------------------------------------------------------------
(* extraer_convocatorias.  BeautifulSoup(html, 'html.parser') is modelled   *)
(* by what the function reads from it: for each selector the elements      *)
(* soup.select returns, and the text of the <main> and <body> elements     *)
(* when they exist.  An element is [head, rest]: head is the first         *)
(* h1/h2/h3/h4/a descendant (optional; name, stripped text, href) and rest *)
(* the stripped text of the element outside head.                          *)

selectores == <<".e-loop-item", "article", ".elementor-post", ".jet-listing-grid__item">>

\* the for loop over selectores: the value of items after the loop
ItemsFrom(doc, i) ==
    LET RECURSIVE Loop(_)
        Loop(j) == IF Len(doc.select[j]) > 1 \/ j = Len(selectores)
                   THEN doc.select[j]
                   ELSE Loop(j + 1)
    IN Loop(i)

\* item.get_text(separator=' ', strip=True)
ItemText(item) ==
    IF item.head = <<>> THEN item.rest ELSE JoinText(item.head[1].text, item.rest)

\* the body of the loop over items: the record of one item, or none
ConvDe(item) ==
    LET conTitulo == IF item.head # <<>>
                     THEN << <<"titulo", Take(item.head[1].text, 200)>> >>
                     ELSE <<>>
        conEnlace == IF item.head # <<>> /\ item.head[1].name = "a"
                                         /\ item.head[1].href # <<>>
                     THEN << <<"enlace", item.head[1].href>> >>
                     ELSE <<>>
        conv      == conTitulo \o conEnlace \o << <<"texto", Take(ItemText(item), 500)>> >>
    IN IF Get(conv, "titulo", <<>>) # <<>> \/ Get(conv, "texto", <<>>) # <<>>
       THEN <<conv>>
       ELSE <<>>

RECURSIVE ConvsDe(_)
ConvsDe(items) ==
    IF items = <<>> THEN <<>> ELSE ConvDe(Head(items)) \o ConvsDe(Tail(items))

extraer_convocatorias(doc) ==
    LET items == ItemsFrom(doc, 1)
    IN IF Len(items) <= 1
       THEN LET main_content == IF doc.main # <<>> THEN doc.main ELSE doc.body
            IN IF main_content # <<>>
               THEN << << <<"tipo", "contenido_general">>,
                          <<"texto", Take(main_content[1], 5000)>> >> >>
               ELSE <<>>
       ELSE ConvsDe(items)

-----------------------------------------------------------------------------
(* calcular_hash: md5(json.dumps(datos, sort_keys=True)).  The digest is    *)
(* modelled by the serialization: the list in its order, every dict with   *)
(* its pairs in key order.                                                 *)

\* the keys of a record, in sorted order
Claves == <<"enlace", "texto", "tipo", "titulo">>

\* SortKeys without sort_keys=True: the pairs in the order of the dict
SortKeys_SinOrden(d) == d

SortKeys(d) ==
    LET RECURSIVE Desde(_)
        Desde(r) == IF r > Len(Claves) THEN <<>>
                    ELSE (IF HasKey(d, Claves[r])
                          THEN << <<Claves[r], Val(d, Claves[r])>> >>
                          ELSE <<>>) \o Desde(r + 1)
    IN Desde(1)

calcular_hash(datos) == [i \in 1..Len(datos) |-> SortKeys(datos[i])]

-----------------------------------------------------------------------------
(* detectar_cambios *)

\* clave(c) = c.get('titulo', c.get('texto', '')[:50])
clave(c) == Get(c, "titulo", Take(Get(c, "texto", <<>>), 50))

\* c.get('tipo') != 'contenido_general'
NoEsGeneral(c) == ~(HasKey(c, "tipo") /\ Val(c, "tipo") = "contenido_general")

\* EnMapa without the test of tipo
EnMapa_SinTipo(c) == clave(c) # <<>>

\* the condition of the two dict comprehensions
EnMapa(c) == clave(c) # <<>> /\ NoEsGeneral(c)

\* {clave(c): c for c in lista if ...}: a dict keeps a key at the place of
\* its first insertion, with the value of its last one
Mapa(lista) ==
    LET f == SelectSeq(lista, EnMapa)
        Primera(i) == \A j \in 1..(i - 1) : clave(f[j]) # clave(f[i])
        Ultima(i)  == \A j \in (i + 1)..Len(f) : clave(f[j]) # clave(f[i])
        RECURSIVE Desde(_)
        Desde(i) ==
            IF i > Len(f) THEN <<>>
            ELSE (IF Primera(i)
                  THEN << <<clave(f[i]),
                            f[CHOOSE j \in i..Len(f) :
                                 clave(f[j]) = clave(f[i]) /\ Ultima(j)]>> >>
                  ELSE <<>>) \o Desde(i + 1)
    IN Desde(1)

\* NoEn with the test reversed: k in b
NoEn_Invertido(a, b) ==
    LET RECURSIVE Desde(_)
        Desde(i) == IF i > Len(a) THEN <<>>
                    ELSE (IF HasKey(b, a[i][1]) THEN <<a[i][2]>> ELSE <<>>)
                         \o Desde(i + 1)
    IN Desde(1)

\* [v for k, v in a.items() if k not in b]
NoEn(a, b) ==
    LET RECURSIVE Desde(_)
        Desde(i) == IF i > Len(a) THEN <<>>
                    ELSE (IF HasKey(b, a[i][1]) THEN <<>> ELSE <<a[i][2]>>)
                         \o Desde(i + 1)
    IN Desde(1)

detectar_cambios(actual, ant) ==
    LET mapa_actual   == Mapa(actual)
        mapa_anterior == Mapa(ant)
    IN [nuevas      |-> NoEn(mapa_actual, mapa_anterior),
        eliminadas  |-> NoEn(mapa_anterior, mapa_actual),
        modificadas |-> <<>>]

-----------------------------------------------------------------------------
(* Values of the program's variables *)

\* Python None, as a JSON value <<type, payload>>
PyNone == <<"None", <<>>>>

\* obtener_pagina returned None
HtmlNone == [k |-> "None", vacio |-> TRUE,
             doc |-> [select |-> <<<<>>, <<>>, <<>>, <<>>>>, main |-> <<>>, body |-> <<>>]]

\* the state file does not exist
Ausente == [existe |-> FALSE, completo |-> FALSE, jt |-> "", ent |-> <<>>]

SinCambios == [nuevas |-> <<>>, eliminadas |-> <<>>, modificadas |-> <<>>]

SinPrevio == [exit |-> -1, crashed |-> FALSE, html |-> HtmlNone, file |-> Ausente]

\* the locals of main() before it runs
EnReposo ==
    /\ html = HtmlNone
    /\ hash_actual = <<>>
    /\ estado_anterior = [jt |-> "None", ent |-> <<>>]
    /\ log = <<>>
    /\ exit = -1
    /\ crashed = FALSE
    /\ branch = ""

-----------------------------------------------------------------------------
(* Inputs: strings and records *)

Rep(ch, n) == [i \in 1..n |-> ch]

sA == <<65>>
sB == <<66>>
sC == <<67>>
sD == <<68>>
sURL == <<104, 116, 116, 112>>
\* two bodies that agree on their first 50 characters and differ after them
sLargo1 == Rep(120, 50) \o <<49>>
sLargo2 == Rep(120, 50) \o <<50>>

Registros ==
    { << <<"titulo", sA>>, <<"texto", sA>> >>,
      << <<"titulo", sA>>, <<"texto", JoinText(sA, sB)>> >>,
      << <<"titulo", sB>>, <<"enlace", sURL>>, <<"texto", sB>> >>,
      << <<"titulo", <<>>>>, <<"enlace", sURL>>, <<"texto", sD>> >>,
      << <<"texto", sLargo1>> >>,
      << <<"texto", sLargo2>> >>,
      << <<"tipo", "contenido_general">>, <<"texto", sA>> >> }

\* the sequences over S of length at most n
SeqsUpTo(S, n) == UNION {[1..m -> S] : m \in 0..n}

-----------------------------------------------------------------------------
(* Specification of detectar_cambios alone: any two record sequences *)

InitDiff ==
    /\ convocatorias \in SeqsUpTo(Registros, MaxLen)
    /\ anterior \in SeqsUpTo(Registros, MaxLen)
    /\ cambios = SinCambios
    /\ pc = "diff"
    /\ file = Ausente /\ file0 = Ausente /\ prev = SinPrevio /\ visto = Ausente
    /\ TELEGRAM_ACTIVADO = FALSE /\ EMAIL_ACTIVADO = FALSE
    /\ run = 0 /\ now = 0
    /\ EnReposo

DetectarCambios ==
    /\ pc = "diff"
    /\ cambios' = detectar_cambios(convocatorias, anterior)
    /\ pc' = "diffed"
    /\ UNCHANGED <<file, TELEGRAM_ACTIVADO, EMAIL_ACTIVADO, run, now, html,
                   convocatorias, hash_actual, estado_anterior, log, exit,
                   crashed, branch, file0, prev, anterior, visto>>

NextDiff == DetectarCambios

SpecDiff == InitDiff /\ [][NextDiff]_vars

-----------------------------------------------------------------------------
(* Specification of calcular_hash alone: any two record sequences, over    *)
(* records some of which differ only in the order of their fields          *)

RegistrosHash ==
    { << <<"titulo", sA>>, <<"texto", sA>> >>,
      << <<"texto", sA>>, <<"titulo", sA>> >>,
      << <<"titulo", sB>>, <<"enlace", sURL>>, <<"texto", sB>> >>,
      << <<"texto", sB>>, <<"titulo", sB>>, <<"enlace", sURL>> >>,
      << <<"titulo", sA>>, <<"texto", sB>> >>,
      << <<"tipo", "contenido_general">>, <<"texto", sA>> >> }

InitHash ==
    /\ convocatorias \in SeqsUpTo(RegistrosHash, MaxLen)
    /\ anterior \in SeqsUpTo(RegistrosHash, MaxLen)
    /\ cambios = SinCambios
    /\ pc = "hash"
    /\ file = Ausente /\ file0 = Ausente /\ prev = SinPrevio /\ visto = Ausente
    /\ TELEGRAM_ACTIVADO = FALSE /\ EMAIL_ACTIVADO = FALSE
    /\ run = 0 /\ now = 0
    /\ EnReposo

\* hash_actual = calcular_hash(convocatorias)
CalcularHash ==
    /\ pc = "hash"
    /\ hash_actual' = calcular_hash(convocatorias)
    /\ pc' = "hashed"
    /\ UNCHANGED <<file, TELEGRAM_ACTIVADO, EMAIL_ACTIVADO, run, now, html,
                   convocatorias, estado_anterior, cambios, log, exit,
                   crashed, branch, file0, prev, anterior, visto>>

NextHash == CalcularHash

SpecHash == InitHash /\ [][NextHash]_vars

-----------------------------------------------------------------------------
(* The state file and the functions that read and write it.  A file is     *)
(* [existe, completo, jt, ent]: whether it exists, whether its text is a   *)
(* complete JSON document, the type of that document and, for an object,   *)
(* its members <<key, <<type, payload>>>> in order.                        *)

\* cargar_estado_anterior: None when the file is missing, when json.load
\* raises (bare except) and when the document is null
cargar_estado_anterior(f) ==
    IF ~f.existe THEN [jt |-> "None", ent |-> <<>>]
    ELSE IF ~f.completo THEN [jt |-> "None", ent |-> <<>>]
    ELSE IF f.jt = "null" THEN [jt |-> "None", ent |-> <<>>]
    ELSE [jt |-> f.jt, ent |-> f.ent]

\* the dict estado of guardar_estado
Estado(convs, hash_contenido, t) ==
    << <<"timestamp", <<"str", t>>>>,
       <<"hash", <<"str", hash_contenido>>>>,
       <<"convocatorias", <<"list", convs>>>> >>

\* guardar_estado: the file after open(.., 'w'), json.dump and close
guardar_estado(convs, hash_contenido, t) ==
    [existe |-> TRUE, completo |-> TRUE, jt |-> "dict",
     ent |-> Estado(convs, hash_contenido, t)]

-----------------------------------------------------------------------------
(* Inputs of main(): pages and initial state files *)

Encabezado(nombre, texto, href) == <<[name |-> nombre, text |-> texto, href |-> href]>>

itA  == [head |-> Encabezado("h2", sA, <<>>), rest |-> <<>>]
itA2 == [head |-> Encabezado("h2", sA, <<>>), rest |-> sB]
itB  == [head |-> Encabezado("a", sB, sURL), rest |-> <<>>]
itC  == [head |-> <<>>, rest |-> sC]
\* a link around an image: a title element with no text
itE  == [head |-> Encabezado("a", <<>>, sURL), rest |-> sD]

Doc(s1, s2, main, body) == [select |-> <<s1, s2, <<>>, <<>>>>, main |-> main, body |-> body]

Docs ==
    { Doc(<<itA, itB>>, <<>>, <<sC>>, <<sC>>),
      Doc(<<itA2, itB>>, <<>>, <<sC>>, <<sC>>),
      Doc(<<itA>>, <<itA, itC>>, <<>>, <<sC>>),
      Doc(<<itE, itB>>, <<>>, <<>>, <<sC>>),
      Doc(<<itA>>, <<>>, <<sC>>, <<sD>>),
      Doc(<<>>, <<>>, <<>>, <<sD>>),
      Doc(<<>>, <<>>, <<>>, <<<<>>>>),
      Doc(<<>>, <<>>, <<>>, <<>>) }

\* what obtener_pagina can return: None (requests.RequestException), the
\* empty string (a response with an empty body) or a page
Respuestas ==
    {HtmlNone}
    \cup {[k |-> "str", vacio |-> TRUE, doc |-> HtmlNone.doc]}
    \cup {[k |-> "str", vacio |-> FALSE, doc |-> d] : d \in Docs}

ConvsAB == extraer_convocatorias(Doc(<<itA, itB>>, <<>>, <<sC>>, <<sC>>))

\* the state files a first invocation can find: none, text that is no
\* JSON, JSON that is no snapshot object, and snapshots
ArchivosIniciales ==
    { Ausente,
      [existe |-> TRUE, completo |-> FALSE, jt |-> "", ent |-> <<>>],
      [existe |-> TRUE, completo |-> TRUE, jt |-> "null", ent |-> <<>>],
      [existe |-> TRUE, completo |-> TRUE, jt |-> "list", ent |-> <<>>],
      [existe |-> TRUE, completo |-> TRUE, jt |-> "dict", ent |-> <<>>],
      [existe |-> TRUE, completo |-> TRUE, jt |-> "dict",
       ent |-> << <<"hash", <<"str", calcular_hash(<<>>)>>>>,
                  <<"convocatorias", <<"null", <<>>>>>> >>],
      guardar_estado(ConvsAB, calcular_hash(ConvsAB), 0),
      guardar_estado(<<>>, calcular_hash(<<>>), 0) }

-----------------------------------------------------------------------------
(* Specification of extraer_convocatorias alone: every document whose four *)
(* selectors match up to MaxItems elements each, with and without a <main> *)
(* and a <body> element, with and without text                             *)

MaxItems == 2

\* an element with no text at all
itVacio == [head |-> <<>>, rest |-> <<>>]

Elementos == {itA, itVacio}

\* the text of a <main> and of a <body> element: none, empty, some
Mains == {<<>>, <<<<>>>>, <<sC>>}
Bodies == {<<>>, <<<<>>>>, <<sD>>}

InitExtraer ==
    /\ html \in {[k |-> "str", vacio |-> FALSE,
                  doc |-> [select |-> sel, main |-> m, body |-> b]] :
                    sel \in [1..Len(selectores) -> SeqsUpTo(Elementos, MaxItems)],
                    m \in Mains, b \in Bodies}
    /\ convocatorias = <<>>
    /\ anterior = <<>>
    /\ cambios = SinCambios
    /\ pc = "extraer"
    /\ file = Ausente /\ file0 = Ausente /\ prev = SinPrevio /\ visto = Ausente
    /\ TELEGRAM_ACTIVADO = FALSE /\ EMAIL_ACTIVADO = FALSE
    /\ run = 0 /\ now = 0
    /\ hash_actual = <<>>
    /\ estado_anterior = [jt |-> "None", ent |-> <<>>]
    /\ log = <<>>
    /\ exit = -1
    /\ crashed = FALSE
    /\ branch = ""

\* convocatorias = extraer_convocatorias(html)
ExtraerConvocatorias ==
    /\ pc = "extraer"
    /\ convocatorias' = extraer_convocatorias(html.doc)
    /\ pc' = "extraido"
    /\ UNCHANGED <<file, TELEGRAM_ACTIVADO, EMAIL_ACTIVADO, run, now, html,
                   hash_actual, estado_anterior, cambios, log, exit, crashed,
                   branch, file0, prev, anterior, visto>>

NextExtraer == ExtraerConvocatorias

SpecExtraer == InitExtraer /\ [][NextExtraer]_vars

-----------------------------------------------------------------------------
(* main() *)

Init ==
    /\ file \in ArchivosIniciales
    /\ file0 = file
    /\ TELEGRAM_ACTIVADO \in BOOLEAN
    /\ EMAIL_ACTIVADO \in BOOLEAN
    /\ run = 1
    /\ now = 1
    /\ pc = "start"
    /\ convocatorias = <<>>
    /\ cambios = SinCambios
    /\ anterior = <<>>
    /\ prev = SinPrevio
    /\ visto = Ausente
    /\ EnReposo

\* html = obtener_pagina(URL_MONITOREAR)
ObtenerPagina ==
    /\ pc = "start"
    /\ \E r \in Respuestas : html' = r
    /\ log' = Append(log, <<"obtener_pagina", IF html'.k = "None" THEN "error" ELSE "ok">>)
    /\ pc' = "fetched"
    /\ UNCHANGED <<file, TELEGRAM_ACTIVADO, EMAIL_ACTIVADO, run, now, convocatorias,
                   hash_actual, estado_anterior, cambios, exit, crashed, branch,
                   file0, prev, anterior, visto>>

\* NoHtml that takes None for a page: html == ""
NoHtml_SoloVacio(h) == h.k = "str" /\ h.vacio

\* not html
NoHtml(h) == h.k = "None" \/ h.vacio

\* if not html: return 1
ReturnSinHtml ==
    /\ pc = "fetched"
    /\ NoHtml(html)
    /\ exit' = 1
    /\ pc' = "done"
    /\ UNCHANGED <<file, TELEGRAM_ACTIVADO, EMAIL_ACTIVADO, run, now, html,
                   convocatorias, hash_actual, estado_anterior, cambios, log,
                   crashed, branch, file0, prev, anterior, visto>>

\* convocatorias = extraer_convocatorias(html); hash_actual = calcular_hash(..)
Extraer ==
    /\ pc = "fetched"
    /\ ~NoHtml(html)
    /\ convocatorias' = extraer_convocatorias(html.doc)
    /\ hash_actual' = calcular_hash(convocatorias')
    /\ pc' = "load"
    /\ UNCHANGED <<file, TELEGRAM_ACTIVADO, EMAIL_ACTIVADO, run, now, html,
                   estado_anterior, cambios, log, exit, crashed, branch, file0,
                   prev, anterior, visto>>

\* estado_anterior = cargar_estado_anterior()
CargarEstado ==
    /\ pc = "load"
    /\ estado_anterior' = cargar_estado_anterior(file)
    /\ visto' = file
    /\ log' = Append(log, <<"cargar", IF file.existe THEN "leido" ELSE "ausente">>)
    /\ pc' = "decide"
    /\ UNCHANGED <<file, TELEGRAM_ACTIVADO, EMAIL_ACTIVADO, run, now, html,
                   convocatorias, hash_actual, cambios, exit, crashed, branch,
                   file0, prev, anterior>>

\* estado_anterior.get("convocatorias", [])
ConvsAnteriores(estado) == Get(estado.ent, "convocatorias", <<"list", <<>>>>)

\* Rama reading the digest under a key the state file does not have
Rama_ClaveErrada(estado, hash, convs) ==
    IF estado.jt = "None" THEN "FIRST_RUN"
    ELSE IF estado.jt # "dict" THEN "EXCEPTION"
    ELSE IF <<"str", hash>> = Get(estado.ent, "md5", PyNone) THEN "UNCHANGED"
    ELSE IF ConvsAnteriores(estado)[1] # "list" THEN "EXCEPTION"
    ELSE LET c == detectar_cambios(convs, ConvsAnteriores(estado)[2])
         IN IF Len(c.nuevas) + Len(c.eliminadas) = 0 THEN "CHANGED_MINOR"
            ELSE "CHANGED"

\* Rama returning at once when there is no prior state
Rama_PrimeraSinGuardar(estado, hash, convs) ==
    IF estado.jt = "None" THEN "UNCHANGED"
    ELSE IF estado.jt # "dict" THEN "EXCEPTION"
    ELSE IF <<"str", hash>> = Get(estado.ent, "hash", PyNone) THEN "UNCHANGED"
    ELSE IF ConvsAnteriores(estado)[1] # "list" THEN "EXCEPTION"
    ELSE LET c == detectar_cambios(convs, ConvsAnteriores(estado)[2])
         IN IF Len(c.nuevas) + Len(c.eliminadas) = 0 THEN "CHANGED_MINOR"
            ELSE "CHANGED"

\* Rama counting only the added records
Rama_SoloNuevas(estado, hash, convs) ==
    IF estado.jt = "None" THEN "FIRST_RUN"
    ELSE IF estado.jt # "dict" THEN "EXCEPTION"
    ELSE IF <<"str", hash>> = Get(estado.ent, "hash", PyNone) THEN "UNCHANGED"
    ELSE IF ConvsAnteriores(estado)[1] # "list" THEN "EXCEPTION"
    ELSE LET c == detectar_cambios(convs, ConvsAnteriores(estado)[2])
         IN IF Len(c.nuevas) = 0 THEN "CHANGED_MINOR"
            ELSE "CHANGED"

\* the branch main() takes at lines 213-229; "EXCEPTION" when a statement
\* raises: .get on a list, iterating None
Rama(estado, hash, convs) ==
    IF estado.jt = "None" THEN "FIRST_RUN"
    ELSE IF estado.jt # "dict" THEN "EXCEPTION"
    ELSE IF <<"str", hash>> = Get(estado.ent, "hash", PyNone) THEN "UNCHANGED"
    ELSE IF ConvsAnteriores(estado)[1] # "list" THEN "EXCEPTION"
    ELSE LET c == detectar_cambios(convs, ConvsAnteriores(estado)[2])
         IN IF Len(c.nuevas) + Len(c.eliminadas) = 0 THEN "CHANGED_MINOR"
            ELSE "CHANGED"

\* lines 213-229 of main()
Decidir ==
    /\ pc = "decide"
    /\ branch' = Rama(estado_anterior, hash_actual, convocatorias)
    /\ cambios' = IF branch' \in {"CHANGED_MINOR", "CHANGED"}
                  THEN detectar_cambios(convocatorias, ConvsAnteriores(estado_anterior)[2])
                  ELSE cambios
    /\ pc' = CASE branch' \in {"FIRST_RUN", "CHANGED_MINOR"} -> "save"
               [] branch' = "CHANGED" -> "telegram"
               [] OTHER -> "done"
    /\ exit' = CASE branch' = "UNCHANGED" -> 0
                 [] branch' = "EXCEPTION" -> 1
                 [] OTHER -> exit
    /\ crashed' = (branch' = "EXCEPTION")
    /\ UNCHANGED <<file, TELEGRAM_ACTIVADO, EMAIL_ACTIVADO, run, now, html,
                   convocatorias, hash_actual, estado_anterior, log, file0,
                   prev, anterior, visto>>

\* what enviar_telegram / enviar_email can do: return False at once when
\* the channel is off, else deliver, or catch the exception of the delivery
Resultados(activado) == IF activado THEN {"ok", "error"} ELSE {"off"}

\* enviar_telegram without its try: the exception of the delivery escapes
EnviarTelegram_SinTry ==
    /\ pc = "telegram"
    /\ \E r \in Resultados(TELEGRAM_ACTIVADO) :
          /\ log' = Append(log, <<"telegram", r>>)
          /\ pc' = IF r = "error" THEN "done" ELSE "email"
          /\ exit' = IF r = "error" THEN 1 ELSE exit
          /\ crashed' = (r = "error")
    /\ UNCHANGED <<file, TELEGRAM_ACTIVADO, EMAIL_ACTIVADO, run, now, html,
                   convocatorias, hash_actual, estado_anterior, cambios,
                   branch, file0, prev, anterior, visto>>

\* enviar_telegram(mensaje)
EnviarTelegram ==
    /\ pc = "telegram"
    /\ \E r \in Resultados(TELEGRAM_ACTIVADO) : log' = Append(log, <<"telegram", r>>)
    /\ pc' = "email"
    /\ UNCHANGED <<file, TELEGRAM_ACTIVADO, EMAIL_ACTIVADO, run, now, html,
                   convocatorias, hash_actual, estado_anterior, cambios, exit,
                   crashed, branch, file0, prev, anterior, visto>>

\* enviar_email(asunto, cuerpo)
EnviarEmail ==
    /\ pc = "email"
    /\ \E r \in Resultados(EMAIL_ACTIVADO) : log' = Append(log, <<"email", r>>)
    /\ pc' = "save"
    /\ UNCHANGED <<file, TELEGRAM_ACTIVADO, EMAIL_ACTIVADO, run, now, html,
                   convocatorias, hash_actual, estado_anterior, cambios, exit,
                   crashed, branch, file0, prev, anterior, visto>>

\* guardar_estado(convocatorias, hash_actual); return 0
GuardarEstado ==
    /\ pc = "save"
    /\ file' = guardar_estado(convocatorias, hash_actual, now)
    /\ log' = Append(log, <<"guardar", "ok">>)
    /\ exit' = 0
    /\ pc' = "done"
    /\ UNCHANGED <<TELEGRAM_ACTIVADO, EMAIL_ACTIVADO, run, now, html,
                   convocatorias, hash_actual, estado_anterior, cambios,
                   crashed, branch, file0, prev, anterior, visto>>

\* the scheduler invokes the script again, after the previous process ended
NuevaEjecucion ==
    /\ pc = "done"
    /\ run < MaxRuns
    /\ prev' = [exit |-> exit, crashed |-> crashed, html |-> html, file |-> file]
    /\ run' = run + 1
    /\ now' = now + 1
    /\ file0' = file
    /\ pc' = "start"
    /\ convocatorias' = <<>>
    /\ cambios' = SinCambios
    /\ html' = HtmlNone
    /\ hash_actual' = <<>>
    /\ estado_anterior' = [jt |-> "None", ent |-> <<>>]
    /\ log' = <<>>
    /\ exit' = -1
    /\ crashed' = FALSE
    /\ branch' = ""
    /\ UNCHANGED <<file, TELEGRAM_ACTIVADO, EMAIL_ACTIVADO, anterior, visto>>

Next ==
    \/ ObtenerPagina
    \/ ReturnSinHtml
    \/ Extraer
    \/ CargarEstado
    \/ Decidir
    \/ EnviarTelegram
    \/ EnviarEmail
    \/ GuardarEstado
    \/ NuevaEjecucion

Spec == Init /\ [][Next]_vars

-----------------------------------------------------------------------------
(* guardar_estado step by step, for readers that run while it writes and    *)
(* for a writer that is killed: open(ARCHIVO_ESTADO, 'w') creates or        *)
(* truncates the file, json.dump writes through the file's buffer, which    *)
(* reaches the disk a part at a time, and leaving the with block writes     *)
(* the rest and closes the file.                                           *)

\* with open(ARCHIVO_ESTADO, 'w', encoding='utf-8') as f:
GuardarAbrir ==
    /\ pc = "save"
    /\ file' = [existe |-> TRUE, completo |-> FALSE, jt |-> "dict", ent |-> <<>>]
    /\ pc' = "saving"
    /\ UNCHANGED <<TELEGRAM_ACTIVADO, EMAIL_ACTIVADO, run, now, html,
                   convocatorias, hash_actual, estado_anterior, cambios, log,
                   exit, crashed, branch, file0, prev, anterior, visto>>

\* json.dump(estado, f, ..): the buffer is flushed before the dump is over
GuardarVolcar ==
    /\ pc = "saving"
    /\ Len(file.ent) < Len(Estado(convocatorias, hash_actual, now))
    /\ file' = [file EXCEPT !.ent = SubSeq(Estado(convocatorias, hash_actual, now),
                                           1, Len(file.ent) + 1)]
    /\ UNCHANGED <<TELEGRAM_ACTIVADO, EMAIL_ACTIVADO, run, now, pc, html,
                   convocatorias, hash_actual, estado_anterior, cambios, log,
                   exit, crashed, branch, file0, prev, anterior, visto>>

\* the end of the with block, and return 0
GuardarCerrar ==
    /\ pc = "saving"
    /\ file' = guardar_estado(convocatorias, hash_actual, now)
    /\ log' = Append(log, <<"guardar", "ok">>)
    /\ exit' = 0
    /\ pc' = "done"
    /\ UNCHANGED <<TELEGRAM_ACTIVADO, EMAIL_ACTIVADO, run, now, html,
                   convocatorias, hash_actual, estado_anterior, cambios,
                   crashed, branch, file0, prev, anterior, visto>>

\* the process is killed inside guardar_estado (128 + SIGKILL)
Interrumpir ==
    /\ pc = "saving"
    /\ exit' = 137
    /\ pc' = "done"
    /\ UNCHANGED <<file, TELEGRAM_ACTIVADO, EMAIL_ACTIVADO, run, now, html,
                   convocatorias, hash_actual, estado_anterior, cambios, log,
                   crashed, branch, file0, prev, anterior, visto>>

\* cargar_estado_anterior of an invocation that overlaps the current one
OtraCarga ==
    /\ pc # "done"
    /\ visto' = file
    /\ UNCHANGED <<file, TELEGRAM_ACTIVADO, EMAIL_ACTIVADO, run, now, pc, html,
                   convocatorias, hash_actual, estado_anterior, cambios, log,
                   exit, crashed, branch, file0, prev, anterior>>

\* the invocations start with no state file or with a snapshot
InitOverlap ==
    /\ Init
    /\ file \in {Ausente, guardar_estado(ConvsAB, calcular_hash(ConvsAB), 0)}

NextOverlap ==
    \/ ObtenerPagina
    \/ ReturnSinHtml
    \/ Extraer
    \/ CargarEstado
    \/ Decidir
    \/ EnviarTelegram
    \/ EnviarEmail
    \/ GuardarAbrir
    \/ GuardarVolcar
    \/ GuardarCerrar
    \/ Interrumpir
    \/ OtraCarga
    \/ NuevaEjecucion

SpecOverlap == InitOverlap /\ [][NextOverlap]_vars

-----------------------------------------------------------------------------
(* main() when the write of the state file can fail.  guardar_estado has   *)
(* no try block and main() calls it bare on lines 215, 228 and 235: an     *)
(* OSError of open() leaves the file as it was, an OSError of json.dump()  *)
(* or of the close leaves the file open() has truncated; either one        *)
(* propagates out of main() and the interpreter ends with a traceback and  *)
(* status 1.                                                               *)

\* the state file after a guardar_estado that raised
TrasFallo(f) ==
    {f, [existe |-> TRUE, completo |-> FALSE, jt |-> "dict", ent |-> <<>>]}

\* guardar_estado(convocatorias, hash_actual) raises OSError
GuardarFalla ==
    /\ pc = "save"
    /\ \E f \in TrasFallo(file) : file' = f
    /\ log' = Append(log, <<"guardar", "error">>)
    /\ crashed' = TRUE
    /\ exit' = 1
    /\ pc' = "done"
    /\ UNCHANGED <<TELEGRAM_ACTIVADO, EMAIL_ACTIVADO, run, now, html,
                   convocatorias, hash_actual, estado_anterior, cambios,
                   branch, file0, prev, anterior, visto>>

\* the invocations start with no state file or with a snapshot
InitFallos ==
    /\ Init
    /\ file \in {Ausente, guardar_estado(ConvsAB, calcular_hash(ConvsAB), 0)}

NextFallos ==
    \/ ObtenerPagina
    \/ ReturnSinHtml
    \/ Extraer
    \/ CargarEstado
    \/ Decidir
    \/ EnviarTelegram
    \/ EnviarEmail
    \/ GuardarEstado
    \/ GuardarFalla
    \/ NuevaEjecucion

SpecFallos == InitFallos /\ [][NextFallos]_vars

\* the runs of a deployment: the first invocation finds no state file
InitDesdeCero ==
    /\ Init
    /\ file = Ausente

\* the runs of a deployment, every write of the state file succeeding
SpecDesdeCero == InitDesdeCero /\ [][Next]_vars

\* the runs of a deployment, a write of the state file possibly failing
SpecDesdeCeroFallos == InitDesdeCero /\ [][NextFallos]_vars

-----------------------------------------------------------------------------
(* Claims about detectar_cambios, checked under SpecDiff *)

\* the identity key as the data model words it: the title if present and
\* not empty, otherwise the first 50 characters of the body
ClaveSpec(c) ==
    IF Get(c, "titulo", <<>>) # <<>> THEN Val(c, "titulo")
    ELSE Take(Get(c, "texto", <<>>), 50)

ClavesSpecDe(lista) == {ClaveSpec(lista[i]) : i \in 1..Len(lista)}

\* the records of a sequence that take part in the diff, and their keys
Participa(lista) == {i \in 1..Len(lista) : clave(lista[i]) # <<>> /\ NoEsGeneral(lista[i])}

ClavesDe(lista) == {clave(lista[i]) : i \in Participa(lista)}

\* the last record of lista, among those taking part, whose key is k
UltimoCon(lista, k) ==
    lista[CHOOSE i \in Participa(lista) :
            /\ clave(lista[i]) = k
            /\ \A j \in Participa(lista) : clave(lista[j]) = k => j <= i]

\* salida holds, once each, the last record of every key of desde that is
\* no key of contra, and nothing else
EsDiferencia(salida, desde, contra) ==
    LET K == ClavesDe(desde) \ ClavesDe(contra)
    IN /\ Len(salida) = Cardinality(K)
       /\ \A k \in K : \E i \in 1..Len(salida) : salida[i] = UltimoCon(desde, k)
       /\ \A i \in 1..Len(salida) : clave(salida[i]) \in K

C2_GeneralNeverDiffed ==
    pc = "diffed" =>
        /\ \A i \in 1..Len(cambios.nuevas) : NoEsGeneral(cambios.nuevas[i])
        /\ \A i \in 1..Len(cambios.eliminadas) : NoEsGeneral(cambios.eliminadas[i])

\* a diff that reports an added record, of a current sequence that holds a
\* general content record and a previous sequence that holds nothing else
C2_Witness ==
    /\ pc = "diffed"
    /\ \E i \in 1..Len(convocatorias) : ~NoEsGeneral(convocatorias[i])
    /\ anterior # <<>>
    /\ \A j \in 1..Len(anterior) : ~NoEsGeneral(anterior[j])
    /\ cambios.nuevas # <<>>

-----------------------------------------------------------------------------
(* Claims about main(), checked under Spec *)

\* the current invocation called enviar_telegram or enviar_email
Notifico == \E i \in 1..Len(log) : log[i][1] \in {"telegram", "email"}

\* the current invocation reached cargar_estado_anterior
LlegoACargar == \E i \in 1..Len(log) : log[i][1] = "cargar"

\* the records of the page the current invocation fetched
Extraido == extraer_convocatorias(html.doc)

\* the snapshot of the page the current invocation fetched, as a state file
Esperado ==
    [existe |-> TRUE, completo |-> TRUE, jt |-> "dict",
     ent |-> << <<"timestamp", <<"str", now>>>>,
                <<"hash", <<"str", calcular_hash(Extraido)>>>>,
                <<"convocatorias", <<"list", Extraido>>>> >>]

\* the state file the invocation started with holds a JSON object whose
\* digest differs from the one of the fetched page and whose records can
\* be compared with the fetched ones
Comparable ==
    /\ html.k = "str" /\ ~html.vacio
    /\ file0.existe /\ file0.completo /\ file0.jt = "dict"
    /\ Get(file0.ent, "hash", PyNone) # <<"str", calcular_hash(Extraido)>>
    /\ Get(file0.ent, "convocatorias", <<"list", <<>>>>)[1] = "list"

\* the Change Set between the fetched page and the state file at the start
CambiosEsperados ==
    detectar_cambios(Extraido, Get(file0.ent, "convocatorias", <<"list", <<>>>>)[2])

\* CHANGED: the digest differs and something was added or removed
EsCambio ==
    /\ Comparable
    /\ Len(CambiosEsperados.nuevas) + Len(CambiosEsperados.eliminadas) > 0

\* CHANGED-MINOR: the digest differs and nothing was added or removed
EsMenor ==
    /\ Comparable
    /\ CambiosEsperados.nuevas = <<>> /\ CambiosEsperados.eliminadas = <<>>

\* C3: a run that follows a successful run and fetches the same markup
\* takes the UNCHANGED branch: no notification, exit 0, and the state file
\* (timestamp, hash, records) is as the previous run left it.
C3_Idempotent ==
    (pc = "done" /\ run > 1 /\ prev.exit = 0 /\ ~prev.crashed /\ html = prev.html) =>
        /\ branch = "UNCHANGED"
        /\ ~Notifico
        /\ exit = 0 /\ ~crashed
        /\ file = prev.file

\* a second run ended, on the same markup as the run before it, which wrote
\* the state file
C3_Witness ==
    /\ pc = "done" /\ run > 1 /\ prev.exit = 0 /\ html = prev.html
    /\ prev.file.existe
    /\ Get(prev.file.ent, "timestamp", PyNone) = <<"str", now - 1>>
    /\ Extraido # <<>>

C5_FetchFails ==
    (pc = "done" /\ log # <<>> /\ log[1] = <<"obtener_pagina", "error">>) =>
        /\ exit = 1
        /\ file = file0
        /\ ~Notifico
        /\ Len(log) = 1

\* a failed fetch in a run that had a snapshot and in a run that had none
C5_Witness ==
    /\ pc = "done" /\ log # <<>> /\ log[1] = <<"obtener_pagina", "error">>
    /\ run > 1
    /\ file.existe /\ file.completo /\ file.jt = "dict"

\* C6 as claimed: every run whose fetch succeeds, a page with no text at
\* all included, proceeds through extraction and exits 0.
C6_Original ==
    (pc = "done" /\ log # <<>> /\ log[1] = <<"obtener_pagina", "ok">>) =>
        /\ LlegoACargar
        /\ exit = 0

\* a state file that is no snapshot: not JSON, or JSON that is no object
\* with a digest and a list of records
Corrupto(f) ==
    /\ f.existe
    /\ \/ ~f.completo
       \/ f.jt # "dict"
       \/ ~HasKey(f.ent, "hash")
       \/ Get(f.ent, "convocatorias", PyNone)[1] # "list"

\* C7 as claimed: a run that finds a corrupt state file behaves as a first
\* run: it writes the snapshot, notifies nobody, exits 0 and never ends in
\* a fatal error.
C7_Original ==
    (pc = "done" /\ LlegoACargar /\ Corrupto(file0)) =>
        /\ file = Esperado
        /\ ~Notifico
        /\ exit = 0 /\ ~crashed

-----------------------------------------------------------------------------
(* Claim about guardar_estado and its readers, checked under SpecOverlap *)

\* C8 as claimed: no cargar_estado_anterior, of an overlapping invocation
\* or of a run that follows a killed writer, reads a half-written file:
\* what it reads is a complete snapshot, the old one or the new one.
C8_Original == visto.existe => (visto.completo /\ visto.jt = "dict")


-----------------------------------------------------------------------------
(* Claim about the exceptions of main(), checked under SpecFallos *)

\* C11 as claimed: every run ends with exit code 0 or 1 and no failure
\* other than the one of the fetch ends it by an exception that escapes
\* main(): not the load of the state, not its save (first run, minor
\* change, after the notifications), not a notification.
C11_Original ==
    pc = "done" => (exit \in {0, 1} /\ ~crashed)

-----------------------------------------------------------------------------
(* Claim about calcular_hash, checked under SpecHash *)

\* the dicts a and b hold the same keys with the same values
MismoDict(a, b) ==
    LET K == {a[i][1] : i \in 1..Len(a)} \cup {b[i][1] : i \in 1..Len(b)}
    IN \A k \in K : HasKey(a, k) /\ HasKey(b, k) /\ Val(a, k) = Val(b, k)

\* the sequences a and b hold the same records at the same positions
MismosRegistros(a, b) ==
    Len(a) = Len(b) /\ \A i \in 1..Len(a) : MismoDict(a[i], b[i])

\* b holds the records of a in some order
EsReordenacion(a, b) ==
    /\ Len(a) = Len(b)
    /\ \E p \in Permutations(1..Len(a)) : \A i \in 1..Len(a) : MismoDict(a[i], b[p[i]])

\* C12 as claimed: two sequences that differ only in the order of the
\* fields inside their records have the same digest, a sequence and the
\* same sequence with one record added or removed at its end have
\* different digests, and a sequence and a reordering of its records have
\* the same digest.
C12_Original ==
    pc = "hashed" =>
        /\ MismosRegistros(convocatorias, anterior) => hash_actual = calcular_hash(anterior)
        /\ (Len(anterior) = Len(convocatorias) + 1
            /\ MismosRegistros(convocatorias, SubSeq(anterior, 1, Len(convocatorias))))
               => hash_actual # calcular_hash(anterior)
        /\ EsReordenacion(convocatorias, anterior) => hash_actual = calcular_hash(anterior)

\* C12 as amended: two record sequences have the same digest exactly when
\* they are as long as each other and hold, position by position, records
\* with the same fields and values, in whatever order the fields are.
C12_Digest ==
    pc = "hashed" =>
        (hash_actual = calcular_hash(anterior) <=> MismosRegistros(convocatorias, anterior))

\* the digest of two records was computed, and the other sequence holds the
\* same two records with their fields in another order
C12_Witness ==
    /\ pc = "hashed"
    /\ Len(convocatorias) = 2
    /\ convocatorias[1] # convocatorias[2]
    /\ MismosRegistros(convocatorias, anterior)
    /\ \A i \in 1..2 : convocatorias[i] # anterior[i]
    /\ hash_actual = calcular_hash(anterior)

-----------------------------------------------------------------------------
(* Claims about the records main() extracts, checked under Spec *)

\* C13 as claimed: the key detectar_cambios gives a record is its title if
\* the title is present and not empty, otherwise the first 50 characters of
\* its body; a record with an empty title and a body that is not empty is
\* keyed by the prefix of its body and enters the diff mapping.
C13_Original ==
    \A i \in 1..Len(convocatorias) :
        /\ clave(convocatorias[i]) = ClaveSpec(convocatorias[i])
        /\ (/\ Get(convocatorias[i], "titulo", <<>>) = <<>>
            /\ Get(convocatorias[i], "texto", <<>>) # <<>>
            /\ NoEsGeneral(convocatorias[i])) => EnMapa(convocatorias[i])

-----------------------------------------------------------------------------
(* Claims about extraer_convocatorias, checked under SpecExtraer *)

\* the document holds no text: no element a selector matches has any, and
\* neither has <main> nor <body>
SinTexto(doc) ==
    /\ \A j \in 1..Len(selectores) : \A i \in 1..Len(doc.select[j]) :
          ItemText(doc.select[j][i]) = <<>>
    /\ doc.main \in {<<>>, <<<<>>>>}
    /\ doc.body \in {<<>>, <<<<>>>>}

\* C14 as claimed: every record extraer_convocatorias returns, from items
\* or from the fallback, has a title or a body that is not empty, and a
\* document with no text at all gives the empty sequence.
C14_Original ==
    pc = "extraido" =>
        /\ \A i \in 1..Len(convocatorias) :
              \/ Get(convocatorias[i], "titulo", <<>>) # <<>>
              \/ Get(convocatorias[i], "texto", <<>>) # <<>>
        /\ SinTexto(html.doc) => convocatorias = <<>>

\* the selectors of the document that match more than one element
ConVarios(doc) == {j \in 1..Len(selectores) : Len(doc.select[j]) > 1}

\* C16 as claimed: extraer_convocatorias returns the records of the items
\* of the first selector, in the order of selectores, that matches more
\* than one element; when no selector does, also when one matches a single
\* element, it returns exactly one record, of kind general content, whose
\* text is the one of <main>, or the one of <body> when there is no <main>.
C16_Original ==
    pc = "extraido" =>
        LET doc == html.doc
        IN IF ConVarios(doc) # {}
           THEN LET j == CHOOSE j \in ConVarios(doc) : \A k \in ConVarios(doc) : j <= k
                IN convocatorias = ConvsDe(doc.select[j])
           ELSE /\ Len(convocatorias) = 1
                /\ Get(convocatorias[1], "tipo", "") = "contenido_general"
                /\ doc.main # <<>> =>
                      Get(convocatorias[1], "texto", <<>>) = Take(doc.main[1], 5000)
                /\ (doc.main = <<>> /\ doc.body # <<>>) =>
                      Get(convocatorias[1], "texto", <<>>) = Take(doc.body[1], 5000)

-----------------------------------------------------------------------------
(* Claim about records with one identity key, checked under SpecDiff *)

\* the records of lista that are not of kind general content
Items(lista) == {i \in 1..Len(lista) : NoEsGeneral(lista[i])}

\* the identity keys that several items of lista have
Repetidas(lista) ==
    {ClaveSpec(lista[i]) : i \in {i \in Items(lista) :
        \E j \in Items(lista) : j # i /\ ClaveSpec(lista[j]) = ClaveSpec(lista[i])}}

\* the last item of lista whose identity key is k
UltimoItem(lista, k) ==
    lista[CHOOSE i \in Items(lista) :
            /\ ClaveSpec(lista[i]) = k
            /\ \A j \in Items(lista) : ClaveSpec(lista[j]) = k => j <= i]

\* every key that several items of desde have and no item of contra has
\* contributes to salida one record, the last of desde with that key
UnaPorClave(salida, desde, contra) ==
    \A k \in Repetidas(desde) \ {ClaveSpec(contra[i]) : i \in Items(contra)} :
        /\ Cardinality({i \in 1..Len(salida) : ClaveSpec(salida[i]) = k}) = 1
        /\ \E i \in 1..Len(salida) : salida[i] = UltimoItem(desde, k)

\* C15 as claimed: when several records of a snapshot have one identity
\* key, a key that is new contributes exactly one record to added, a key
\* that is gone exactly one record to removed, and that record is the last
\* one with that key in its sequence.
C15_Original ==
    pc = "diffed" =>
        /\ UnaPorClave(cambios.nuevas, convocatorias, anterior)
        /\ UnaPorClave(cambios.eliminadas, anterior, convocatorias)

-----------------------------------------------------------------------------
(* Claim about the state file over the runs of a deployment, checked under *)
(* SpecDesdeCeroFallos                                                     *)

\* C17 as claimed: over the runs that follow one another from no state
\* file, whenever the state file exists it is a snapshot whose hash is
\* calcular_hash of its records, and when a run has exited 0 the hash in
\* the file is the digest of the records that run extracted, also when the
\* run took the UNCHANGED branch and wrote nothing.
C17_Original ==
    /\ file.existe =>
          /\ file.completo /\ file.jt = "dict"
          /\ Get(file.ent, "convocatorias", PyNone)[1] = "list"
          /\ Get(file.ent, "hash", PyNone) =
                <<"str", calcular_hash(Get(file.ent, "convocatorias", PyNone)[2])>>
    /\ (pc = "done" /\ exit = 0) =>
          /\ file.existe
          /\ Get(file.ent, "hash", PyNone) = <<"str", calcular_hash(Extraido)>>

-----------------------------------------------------------------------------
(* Claim about a page that loses and regains its structure, checked under  *)
(* Spec                                                                    *)

\* the records of the snapshot the invocation started with
Previos == Get(file0.ent, "convocatorias", <<"list", <<>>>>)[2]

\* the invocation started with a snapshot
ConSnapshot ==
    /\ file0.existe /\ file0.completo /\ file0.jt = "dict"
    /\ HasKey(file0.ent, "hash")
    /\ Get(file0.ent, "convocatorias", PyNone)[1] = "list"

\* lista is the output of the fallback path: one general content record
EsFallback(lista) == Len(lista) = 1 /\ ~NoEsGeneral(lista[1])

\* lista is the output of the structural path: item records
SonItems(lista) == lista # <<>> /\ \A i \in 1..Len(lista) : NoEsGeneral(lista[i])

\* C18 as claimed: a run that starts with a snapshot of item records and
\* extracts the single fallback record takes the CHANGED branch, reports
\* the identity key of every previous item as removed and nothing as added,
\* notifies and writes the fallback snapshot; a run that starts with a
\* fallback snapshot and extracts items reports the identity key of every
\* one of them as added.
C18_Original ==
    (pc = "done" /\ LlegoACargar /\ ConSnapshot) =>
        /\ (SonItems(Previos) /\ EsFallback(Extraido)) =>
              /\ branch = "CHANGED"
              /\ ClavesSpecDe(cambios.eliminadas) = ClavesSpecDe(Previos)
              /\ cambios.nuevas = <<>>
              /\ Notifico
              /\ file = Esperado
        /\ (EsFallback(Previos) /\ SonItems(Extraido)) =>
              /\ branch = "CHANGED"
              /\ ClavesSpecDe(cambios.nuevas) = ClavesSpecDe(Extraido)

====
